---- MODULE Spec2Model ----
\* Grid spatial index construction of pylidar
\* (pylidar/toolbox/indexing/gridindex.py): createGridSpatialIndex tiles a
\* global extent, classifyFunc splits every chunk of pulses over the tiles'
\* scratch stores, indexAndMerge appends the tiles to the output store.
\*
\* Coordinates, block sizes and bin sizes are integers (a fixed-point grid);
\* a gain, which the code computes by true division, is kept as the exact
\* fraction <<numerator, denominator>>.  An optional value (Python None or a
\* value) is a sequence of length 0 or 1.
EXTENDS Integers, Sequences, FiniteSets, TLC

VARIABLES
    \* ---- createGridSpatialIndex (gridindex.py)
    pc,               \* position in createGridSpatialIndex
    error,            \* "" or the name of the exception that ended the run
    indexMethod,      \* argument indexMethod
    header,           \* info.header of the input file (key -> value)
    extent,           \* argument/local extent: <<>> is None
    binSize,          \* argument/local binSize
    blockSize,        \* argument/local blockSize: <<>> is None
    subExtent,        \* working copy moved along by the tiling loop: <<>> before
    extentList,       \* list of (subExtent, driver opened in CREATE mode)
    newExtentList,    \* list of (subExtent, driver reopened in READ mode)
    files,            \* scratch files by name: existence, scaling, data written
    data,             \* the chunk handed to the last classifyFunc call: <<>> before
    nBlocks,          \* chunks delivered so far (isFirstBlock <=> nBlocks = 1 in the call)
    nRead,            \* pulses of the input delivered so far
    out,              \* the output store: <<>> while not created
    outCalls,         \* calls made on the output store, in order
    nFilesProcessed,  \* local of indexAndMerge
    idx,              \* position of the running for-loop over a tile list
    \* ---- the two passes of translate (las2spdv4.py)
    tpc,              \* position in translate: the pass that is running
    lasFile,          \* the chunks the input file gives, the same in each pass
    nChunk,           \* chunks of the running pass handed over so far
    rangeDict,        \* otherDict: the tables rangeFunc fills
    output1,          \* the calls made on the output file, in order
    raised,           \* "" or the name of the exception that ended translate
    \* ---- one call of copyScaling on two stores of any scaling
    scalingIn,        \* the scaling table of the store copied from
    scalingOut,       \* the scaling table of the store copied to
    scalingWas        \* <<>>, or after the call the two tables as they were before

gridVars == <<pc, error, indexMethod, header, extent, binSize, blockSize, subExtent,
              extentList, newExtentList, files, data, nBlocks, nRead, out, outCalls,
              nFilesProcessed, idx>>

translateVars == <<tpc, lasFile, nChunk, rangeDict, output1, raised>>

scalingVars == <<scalingIn, scalingOut, scalingWas>>

vars == <<gridVars, translateVars, scalingVars>>

-----------------------------------------------------------------------------
\* Bounds of the model

\* widest and tallest global extent
MaxW == 3
MaxH == 3
\* largest block size a caller supplies
MaxBlock == 3
\* pulses in the input file
MaxPulses == 2

\* lower-left corners of the global extents: negative, zero and positive
XMins == {-1, 0}
YMins == {-2, 0, 1}
BinSizes == {1, 2}
\* tiling keys of the input pulses
KeyXs == {0, 2}
KeyYs == {-1, 1}

-----------------------------------------------------------------------------
\* Program constants

BLOCKSIZE_N_BLOCKS == 2
\* the cap of a derived block size (200.0)
MaxDerivedBlock == 200
\* numpy.iinfo of the native type of X_IDX / Y_IDX: an unsigned type, taken
\* 16 bits wide so that every product stays within 32-bit integers
IInfoMin == 0
IInfoMax == 65535

INDEX_CARTESIAN == "INDEX_CARTESIAN"
INDEX_SPHERICAL == "INDEX_SPHERICAL"
INDEX_CYLINDRICAL == "INDEX_CYLINDRICAL"
INDEX_POLAR == "INDEX_POLAR"
INDEX_SCAN == "INDEX_SCAN"
IndexMethods ==
    {INDEX_CARTESIAN, INDEX_SPHERICAL, INDEX_CYLINDRICAL, INDEX_POLAR, INDEX_SCAN}

ARRAY_TYPE_PULSES == "PULSES"
ARRAY_TYPE_POINTS == "POINTS"
ARRAY_TYPE_WAVEFORMS == "WAVEFORMS"

\* the fixed field lists of copyScaling, in the order it walks them
PulseScalingFields ==
    <<"X_ORIGIN", "Y_ORIGIN", "Z_ORIGIN", "H_ORIGIN", "X_IDX", "Y_IDX", "AZIMUTH", "ZENITH">>
PointScalingFields == <<"X", "Y", "Z", "HEIGHT">>
WaveformScalingFields == <<"RANGE_TO_WAVEFORM_START">>

Range(s) == {s[i] : i \in DOMAIN s}

ScalingKeys ==
    {<<f, ARRAY_TYPE_PULSES>> : f \in Range(PulseScalingFields)}
      \cup {<<f, ARRAY_TYPE_POINTS>> : f \in Range(PointScalingFields)}
      \cup {<<f, ARRAY_TYPE_WAVEFORMS>> : f \in Range(WaveformScalingFields)}

-----------------------------------------------------------------------------
\* Extent

Extent(xMin, xMax, yMin, yMax, bin) ==
    [xMin |-> xMin, xMax |-> xMax, yMin |-> yMin, yMax |-> yMax, binSize |-> bin]

\* the global extents of the model: xMax > xMin and yMax > yMin
Extents ==
    {Extent(x, x + w, y, y + h, b) :
        x \in XMins, w \in 1..MaxW, y \in YMins, h \in 1..MaxH, b \in BinSizes}

\* the example of the specification: its extent and its block size
ExampleExtent == Extent(0, 100, 0, 100, 1)
ExampleBlockSize == ExampleExtent.xMax \div 2

\* the header keys the bounding box is read from, per indexing method:
\* <<xMax, xMin, yMax, yMin>>
BBoxKeys(method) ==
    CASE method = INDEX_CARTESIAN -> <<"X_MAX", "X_MIN", "Y_MAX", "Y_MIN">>
      [] method = INDEX_SPHERICAL ->
            <<"AZIMUTH_MAX", "AZIMUTH_MIN", "ZENITH_MAX", "ZENITH_MIN">>
      [] method = INDEX_SCAN ->
            <<"SCANLINE_IDX_MAX", "SCANLINE_IDX_MIN", "SCANLINE_MAX", "SCANLINE_MIN">>
      [] OTHER -> <<>>

Min(a, b) == IF a <= b THEN a ELSE b

\* int(numpy.ceil(a / b)) for a >= 0, b > 0
CeilDiv(a, b) == (a + b - 1) \div b

\* a header holding the bounding box e under the keys of every supported method
HeaderWithBBox(e) ==
    [k \in {"X_MAX", "AZIMUTH_MAX", "SCANLINE_IDX_MAX"} |-> e.xMax]
      @@ [k \in {"X_MIN", "AZIMUTH_MIN", "SCANLINE_IDX_MIN"} |-> e.xMin]
      @@ [k \in {"Y_MAX", "ZENITH_MAX", "SCANLINE_MAX"} |-> e.yMax]
      @@ [k \in {"Y_MIN", "ZENITH_MIN", "SCANLINE_MIN"} |-> e.yMin]

\* a header without any bounding box key
HeaderWithoutBBox == [k \in {"NUMBER_OF_PULSES"} |-> 0]

-----------------------------------------------------------------------------
\* Stores

\* a scaling table: field key -> <<>> (not set) or <<[gain, offset]>>
NoScaling == [k \in ScalingKeys |-> <<>>]

Scaling(gain, offset) == [gain |-> gain, offset |-> offset]

\* the scaling of the input file: set for some fields of each list, not set
\* for others; its X_IDX scaling is not the one of any global extent
InputScaling ==
    [k \in ScalingKeys |->
        IF k[1] \in {"X_ORIGIN", "Y_ORIGIN", "Z_ORIGIN", "X_IDX", "X", "Y", "Z"}
        THEN <<Scaling(<<100, 1>>, 0)>>
        ELSE <<>>]

\* a scratch file just created by mkstemp and SPDV4File(fname, CREATE);
\* setScalingIn is the number of the chunk during which setScaling was last
\* called on the store (0: never)
NewFile == [exists |-> TRUE, scaling |-> NoScaling, setScalingIn |-> 0, writes |-> <<>>]

\* a driver: a handle on file fname
Driver(fname, mode) == [fname |-> fname, mode |-> mode, open |-> TRUE]

Tile(e, driver) == [extent |-> e, driver |-> driver]

-----------------------------------------------------------------------------
\* createGridSpatialIndex: arguments, header lookup, block size

\* translate has not been called
TranslateIdle ==
    /\ tpc = "idle"
    /\ lasFile = <<>>
    /\ nChunk = 0
    /\ rangeDict = <<>>
    /\ output1 = <<>>
    /\ raised = ""

\* copyScaling is called by createGridSpatialIndex only
ScalingIdle ==
    /\ scalingIn = NoScaling
    /\ scalingOut = NoScaling
    /\ scalingWas = <<>>

\* createGridSpatialIndex has not been called
GridIdle ==
    /\ pc = "idle"
    /\ error = ""
    /\ indexMethod = INDEX_CARTESIAN
    /\ header = HeaderWithoutBBox
    /\ extent = <<>>
    /\ binSize = 1
    /\ blockSize = <<>>
    /\ subExtent = <<>>
    /\ extentList = <<>>
    /\ newExtentList = <<>>
    /\ files = <<>>
    /\ data = <<>>
    /\ nBlocks = 0
    /\ nRead = 0
    /\ out = <<>>
    /\ outCalls = <<>>
    /\ nFilesProcessed = 0
    /\ idx = 0

\* The caller passes the bounding box of the header as the extent, or passes
\* no extent and the header holds the bounding box, or passes no extent and
\* the header holds none.
Init ==
    /\ pc = "start"
    /\ error = ""
    /\ indexMethod \in IndexMethods
    /\ \/ \E e \in Extents :
             /\ \/ extent = <<e>> /\ header = HeaderWithBBox(e)
                \/ extent = <<>> /\ header = HeaderWithBBox(e)
             /\ binSize = e.binSize
             /\ blockSize \in {<<>>} \cup {<<b>> : b \in 1..MaxBlock}
       \/ /\ extent = <<>> /\ header = HeaderWithoutBBox
          /\ binSize \in BinSizes
          /\ blockSize \in {<<>>} \cup {<<b>> : b \in 1..MaxBlock}
       \/ /\ extent = <<ExampleExtent>> /\ header = HeaderWithBBox(ExampleExtent)
          /\ binSize = ExampleExtent.binSize
          /\ blockSize \in {<<>>, <<ExampleBlockSize>>}
    /\ subExtent = <<>>
    /\ extentList = <<>>
    /\ newExtentList = <<>>
    /\ files = <<>>
    /\ data = <<>>
    /\ nBlocks = 0
    /\ nRead = 0
    /\ out = <<>>
    /\ outCalls = <<>>
    /\ nFilesProcessed = 0
    /\ idx = 0
    /\ TranslateIdle
    /\ ScalingIdle

\* blockSize when the caller gives none: min(minAxis / N, 200.0) rounded up
\* to a multiple of binSize
DerivedBlockSize(e, bin) ==
    LET minAxis == Min(e.xMax - e.xMin, e.yMax - e.yMin)
    IN  IF minAxis <= BLOCKSIZE_N_BLOCKS * MaxDerivedBlock
        THEN CeilDiv(minAxis, BLOCKSIZE_N_BLOCKS * bin) * bin
        ELSE CeilDiv(MaxDerivedBlock, bin) * bin

\* the subExtent the tiling loop starts from
FirstSubExtent(e, b, bin) ==
    Extent(e.xMin, e.xMin + b, e.yMax - b, e.yMax, bin)

Raise(exc) ==
    /\ pc' = "failed"
    /\ error' = exc

\* lines 63-112: up to the start of the tiling loop (the projection wkt,
\* which no store operation below depends on, is left out)
Start ==
    /\ pc = "start"
    /\ IF extent = <<>> /\ BBoxKeys(indexMethod) = <<>>
       THEN /\ Raise("LiDARSpatialIndexNotAvailable")
            /\ UNCHANGED <<extent, binSize, blockSize, subExtent>>
       ELSE IF extent = <<>> /\ ~(Range(BBoxKeys(indexMethod)) \subseteq DOMAIN header)
       THEN /\ Raise("LiDARFunctionUnsupported")
            /\ UNCHANGED <<extent, binSize, blockSize, subExtent>>
       ELSE LET keys == BBoxKeys(indexMethod)
                e == IF extent = <<>>
                     THEN Extent(header[keys[2]], header[keys[1]],
                                 header[keys[4]], header[keys[3]], binSize)
                     ELSE extent[1]
                bin == IF extent = <<>> THEN binSize ELSE e.binSize
                b == IF blockSize = <<>> THEN DerivedBlockSize(e, bin) ELSE blockSize[1]
            IN  /\ extent' = <<e>>
                /\ binSize' = bin
                /\ blockSize' = <<b>>
                /\ subExtent' = <<FirstSubExtent(e, b, bin)>>
                /\ pc' = "tiling"
                /\ UNCHANGED error
    /\ UNCHANGED <<translateVars, scalingVars>>
    /\ UNCHANGED <<indexMethod, header, extentList, newExtentList, files, data,
                   nBlocks, nRead, out, outCalls, nFilesProcessed, idx>>

-----------------------------------------------------------------------------
\* createGridSpatialIndex: the tiling loop

\* MoveAlong with the end of a row tested by > instead of >=
MoveAlongLate(s, e, b) ==
    LET along == [s EXCEPT !.xMin = s.xMin + b, !.xMax = s.xMax + b]
    IN  IF along.xMin > e.xMax
        THEN [along EXCEPT !.xMin = e.xMin,
                           !.xMax = e.xMin + b,
                           !.yMax = s.yMax - b,
                           !.yMin = IF s.yMin - b < 0 THEN 0 ELSE s.yMin - b]
        ELSE along

\* lines 124-135: the working subExtent s after one tile has been taken from
\* it, for global extent e and block size b
MoveAlong(s, e, b) ==
    LET along == [s EXCEPT !.xMin = s.xMin + b, !.xMax = s.xMax + b]
    IN  IF along.xMin >= e.xMax
        THEN [along EXCEPT !.xMin = e.xMin,
                           !.xMax = e.xMin + b,
                           !.yMax = s.yMax - b,
                           !.yMin = IF s.yMin - b < 0 THEN 0 ELSE s.yMin - b]
        ELSE along

\* line 138
MoreToDo(s, e) == s.yMax > e.yMin

\* lines 115-138: one iteration of the tiling loop
TileStep ==
    /\ pc = "tiling"
    /\ LET fname == Len(files) + 1
           moved == MoveAlong(subExtent[1], extent[1], blockSize[1])
       IN  /\ files' = Append(files, NewFile)
           /\ extentList' = Append(extentList, Tile(subExtent[1], Driver(fname, "CREATE")))
           /\ subExtent' = <<moved>>
           /\ pc' = IF MoreToDo(moved, extent[1]) THEN "tiling" ELSE "partition"
    /\ UNCHANGED <<translateVars, scalingVars>>
    /\ UNCHANGED <<error, indexMethod, header, extent, binSize, blockSize,
                   newExtentList, data, nBlocks, nRead, out, outCalls,
                   nFilesProcessed, idx>>

-----------------------------------------------------------------------------
\* The input file and the chunks lidarprocessor.doProcessing hands over

\* a pulse with tiling key (x, y) under the Cartesian method; its spherical
\* and scan coordinates differ from it and from each other
Pulse(x, y) ==
    [X_IDX |-> x, Y_IDX |-> y, AZIMUTH |-> y, ZENITH |-> x,
     SCANLINE_IDX |-> 2 - x, SCANLINE |-> 0 - y]

Pulses == {Pulse(x, y) : x \in KeyXs, y \in KeyYs}

\* what a pulse of the input owns: its number of points, of waveforms, and of
\* received and transmitted samples
NPoints(p) == p.X_IDX + (p.Y_IDX + 1) \div 2
NWaveforms(p) == IF p.Y_IDX > 0 THEN 1 ELSE 0
NReceived(p) == 2 * NWaveforms(p)
NTransmitted(p) == NWaveforms(p)

\* the size of an array with one column per pulse: rows times columns
ArraySize(cols) ==
    IF \E i \in DOMAIN cols : cols[i] > 0 THEN Len(cols) ELSE 0

\* lines 248-252: the arrays read for the pulses ps, aligned by pulse
\* position (each array is its sequence of columns, a column is the number
\* of entries the pulse owns); an optional array without any entry is read
\* as None (absent) or as an empty array
Chunk(ps, absent) ==
    LET column(n(_)) == [i \in DOMAIN ps |-> n(ps[i])]
        optional(cols) == IF absent /\ ArraySize(cols) = 0 THEN <<>> ELSE <<cols>>
    IN  [pulses |-> ps,
         points |-> column(NPoints),
         waveformInfo |-> optional(column(NWaveforms)),
         recv |-> optional(column(NReceived)),
         trans |-> optional(column(NTransmitted))]

\* the chunks of 1..n pulses
Chunks(n) ==
    {Chunk(ps, absent) :
        ps \in UNION {[1..k -> Pulses] : k \in 1..n}, absent \in BOOLEAN}

-----------------------------------------------------------------------------
\* Scaling propagation

\* the fixed list copyScaling walks for the fields of one array type
FieldsOf(type) ==
    CASE type = ARRAY_TYPE_PULSES -> PulseScalingFields
      [] type = ARRAY_TYPE_POINTS -> PointScalingFields
      [] type = ARRAY_TYPE_WAVEFORMS -> WaveformScalingFields

\* copyScaling with one try around each loop: the first field of a list the
\* input has no scaling for ends the loop over that list
copyScalingUntilMissing(input, output) ==
    [k \in ScalingKeys |->
        IF \A i \in DOMAIN FieldsOf(k[2]) :
              (\E j \in i..Len(FieldsOf(k[2])) : FieldsOf(k[2])[j] = k[1]) =>
                  input[<<FieldsOf(k[2])[i], k[2]>>] # <<>>
        THEN input[k]
        ELSE output[k]]

\* lines 204-232: the scaling table of output after copyScaling(input, output):
\* a field the input has no scaling for (LiDARArrayColumnError) is passed over
copyScaling(input, output) ==
    [k \in ScalingKeys |-> IF input[k] # <<>> THEN input[k] ELSE output[k]]

\* lines 234-241: the scaling table after setScalingForCoordField
setScalingForCoordField(scaling, field, range, offset) ==
    LET gain == <<IInfoMax - IInfoMin, range>>
    IN  [scaling EXCEPT ![<<field, ARRAY_TYPE_PULSES>>] = <<Scaling(gain, offset)>>]

-----------------------------------------------------------------------------
\* classifyFunc

Supported(method) == method \in {INDEX_CARTESIAN, INDEX_SPHERICAL, INDEX_SCAN}

\* lines 262-270: the tiling key fields of the pulses
xIdxOf(method, pulses) ==
    [i \in DOMAIN pulses |->
        CASE method = INDEX_CARTESIAN -> pulses[i].X_IDX
          [] method = INDEX_SPHERICAL -> pulses[i].AZIMUTH
          [] method = INDEX_SCAN -> pulses[i].SCANLINE_IDX]

yIdxOf(method, pulses) ==
    [i \in DOMAIN pulses |->
        CASE method = INDEX_CARTESIAN -> pulses[i].Y_IDX
          [] method = INDEX_SPHERICAL -> pulses[i].ZENITH
          [] method = INDEX_SCAN -> pulses[i].SCANLINE]

\* InTile with both bounds of x inclusive
InTileClosed(x, y, e) ==
    /\ x >= e.xMin
    /\ x <= e.xMax
    /\ y > e.yMin
    /\ y <= e.yMax

\* lines 281-282: the membership test of one key in sub-extent e
InTile(x, y, e) ==
    /\ x >= e.xMin
    /\ x < e.xMax
    /\ y > e.yMin
    /\ y <= e.yMax

Mask(xIdx, yIdx, e) == [i \in DOMAIN xIdx |-> InTile(xIdx[i], yIdx[i], e)]

\* arr[mask]: the entries of arr at the positions mask selects, in order
RECURSIVE Select(_, _)
Select(arr, mask) ==
    IF arr = <<>>
    THEN <<>>
    ELSE IF mask[1]
         THEN <<arr[1]>> \o Select(Tail(arr), Tail(mask))
         ELSE Select(Tail(arr), Tail(mask))

\* lines 293-301: an optional array is subset only when it is there and not empty
SelectOptional(arr, mask) ==
    IF arr # <<>> /\ ArraySize(arr[1]) > 0 THEN <<Select(arr[1], mask)>> ELSE <<>>

\* lines 284-288: the pulses written, X_IDX and Y_IDX set to the tiling key
SelectPulses(pulses, xIdx, yIdx, mask) ==
    LET xSub == Select(xIdx, mask)
        ySub == Select(yIdx, mask)
        pulsesSub == Select(pulses, mask)
    IN  [i \in DOMAIN pulsesSub |->
            [pulsesSub[i] EXCEPT !.X_IDX = xSub[i], !.Y_IDX = ySub[i]]]

\* WriteArgs with the points handed over as read, not subset by the mask
WriteArgsAllPoints(chunk, method, e) ==
    LET xIdx == xIdxOf(method, chunk.pulses)
        yIdx == yIdxOf(method, chunk.pulses)
        mask == Mask(xIdx, yIdx, e)
    IN  [pulses |-> SelectPulses(chunk.pulses, xIdx, yIdx, mask),
         points |-> chunk.points,
         trans |-> SelectOptional(chunk.trans, mask),
         recv |-> SelectOptional(chunk.recv, mask),
         waveformInfo |-> SelectOptional(chunk.waveformInfo, mask)]

\* lines 281-304: the arguments of driver.writeData for the tile of extent e
WriteArgs(chunk, method, e) ==
    LET xIdx == xIdxOf(method, chunk.pulses)
        yIdx == yIdxOf(method, chunk.pulses)
        mask == Mask(xIdx, yIdx, e)
    IN  [pulses |-> SelectPulses(chunk.pulses, xIdx, yIdx, mask),
         points |-> Select(chunk.points, mask),
         trans |-> SelectOptional(chunk.trans, mask),
         recv |-> SelectOptional(chunk.recv, mask),
         waveformInfo |-> SelectOptional(chunk.waveformInfo, mask)]

\* TileScaling with the test of isFirstBlock inverted
TileScalingLater(scaling, first, e) ==
    LET copied == IF ~first THEN copyScaling(InputScaling, scaling) ELSE scaling
        withX == setScalingForCoordField(copied, "X_IDX", e.xMax - e.xMin, e.xMin)
    IN  setScalingForCoordField(withX, "Y_IDX", e.yMax - e.yMin, e.yMin)

\* lines 256-277: the scaling of a tile's scratch store after the call
TileScaling(scaling, first, e) ==
    LET copied == IF first THEN copyScaling(InputScaling, scaling) ELSE scaling
        withX == setScalingForCoordField(copied, "X_IDX", e.xMax - e.xMin, e.xMin)
    IN  setScalingForCoordField(withX, "Y_IDX", e.yMax - e.yMin, e.yMin)

\* lines 254-304: one pass of the loop body over the scratch file of a tile
ClassifyTile(file, tile, chunk, first) ==
    [file EXCEPT !.scaling = TileScaling(file.scaling, first, extent[1]),
                 !.setScalingIn = nBlocks + 1,
                 !.writes = Append(file.writes, WriteArgs(chunk, indexMethod, tile.extent))]

\* lines 243-304 with line 159: doProcessing calls classifyFunc on the next
\* chunk of the input
Classify ==
    /\ pc = "partition"
    /\ \E chunk \in Chunks(MaxPulses - nRead) :
          LET first == nBlocks = 0
          IN  /\ data' = <<chunk>>
              /\ nBlocks' = nBlocks + 1
              /\ nRead' = nRead + Len(chunk.pulses)
              /\ IF Supported(indexMethod)
                 THEN /\ files' = [f \in DOMAIN files |->
                                      ClassifyTile(files[f], extentList[f], chunk, first)]
                      /\ UNCHANGED <<pc, error>>
                 ELSE \* the first tile gets the copied scaling, then line 273 raises
                      /\ files' = [files EXCEPT
                                      ![1].scaling =
                                          IF first THEN copyScaling(InputScaling, @) ELSE @,
                                      ![1].setScalingIn = IF first THEN nBlocks + 1 ELSE @]
                      /\ Raise("LiDARSpatialIndexNotAvailable")
    /\ UNCHANGED <<translateVars, scalingVars>>
    /\ UNCHANGED <<indexMethod, header, extent, binSize, blockSize, subExtent,
                   extentList, newExtentList, out, outCalls, nFilesProcessed, idx>>

\* ClassifyFails with the exception caught around doProcessing: the build
\* goes on to reopen and merge the tiles
ClassifyFailsAndGoesOn ==
    /\ pc = "partition"
    /\ Supported(indexMethod)
    /\ \E chunk \in Chunks(MaxPulses - nRead) :
          \E j \in {1, Len(files)} :
              /\ data' = <<chunk>>
              /\ nBlocks' = nBlocks + 1
              /\ nRead' = nRead + Len(chunk.pulses)
              /\ files' = [f \in DOMAIN files |->
                              IF f < j
                              THEN ClassifyTile(files[f], extentList[f], chunk, nBlocks = 0)
                              ELSE files[f]]
    /\ error' = "IOError"
    /\ pc' = "reopen"
    /\ idx' = 1
    /\ UNCHANGED <<translateVars, scalingVars>>
    /\ UNCHANGED <<indexMethod, header, extent, binSize, blockSize, subExtent,
                   extentList, newExtentList, out, outCalls, nFilesProcessed>>

\* lines 243-304 with line 159: a classifyFunc call that fails: a read of the
\* input or a call on the driver of tile j raises (at the first tile, or at
\* the last one when the tiles before it have been written); nothing in
\* createGridSpatialIndex catches it
ClassifyFails ==
    /\ pc = "partition"
    /\ Supported(indexMethod)
    /\ \E chunk \in Chunks(MaxPulses - nRead) :
          \E j \in {1, Len(files)} :
              /\ data' = <<chunk>>
              /\ nBlocks' = nBlocks + 1
              /\ nRead' = nRead + Len(chunk.pulses)
              /\ files' = [f \in DOMAIN files |->
                              IF f < j
                              THEN ClassifyTile(files[f], extentList[f], chunk, nBlocks = 0)
                              ELSE files[f]]
    /\ Raise("IOError")
    /\ UNCHANGED <<translateVars, scalingVars>>
    /\ UNCHANGED <<indexMethod, header, extent, binSize, blockSize, subExtent,
                   extentList, newExtentList, out, outCalls, nFilesProcessed, idx>>

\* line 159 returns: the input is exhausted
EndOfInput ==
    /\ pc = "partition"
    /\ pc' = "reopen"
    /\ idx' = 1
    /\ UNCHANGED <<translateVars, scalingVars>>
    /\ UNCHANGED <<error, indexMethod, header, extent, binSize, blockSize, subExtent,
                   extentList, newExtentList, files, data, nBlocks, nRead, out,
                   outCalls, nFilesProcessed>>

-----------------------------------------------------------------------------
\* createGridSpatialIndex: close the scratch stores and reopen them for read

\* ReopenStep that opens the read handle without closing the write handle
ReopenStepNoClose ==
    /\ pc = "reopen"
    /\ LET tile == extentList[idx]
       IN  newExtentList' =
              Append(newExtentList, Tile(tile.extent, Driver(tile.driver.fname, "READ")))
    /\ idx' = idx + 1
    /\ pc' = IF idx = Len(extentList) THEN "merge" ELSE "reopen"
    /\ UNCHANGED <<translateVars, scalingVars>>
    /\ UNCHANGED <<error, indexMethod, header, extent, binSize, blockSize, subExtent,
                   extentList, files, data, nBlocks, nRead, out, outCalls,
                   nFilesProcessed>>

\* lines 164-171: one iteration of the loop over extentList
ReopenStep ==
    /\ pc = "reopen"
    /\ LET tile == extentList[idx]
           fname == tile.driver.fname
       IN  /\ extentList' = [extentList EXCEPT ![idx].driver.open = FALSE]
           /\ newExtentList' = Append(newExtentList, Tile(tile.extent, Driver(fname, "READ")))
    /\ idx' = idx + 1
    /\ pc' = IF idx = Len(extentList) THEN "merge" ELSE "reopen"
    /\ UNCHANGED <<translateVars, scalingVars>>
    /\ UNCHANGED <<error, indexMethod, header, extent, binSize, blockSize, subExtent,
                   files, data, nBlocks, nRead, out, outCalls, nFilesProcessed>>

-----------------------------------------------------------------------------
\* indexAndMerge

\* lines 174-180: the header with the index keys set
UpdatedHeader(h, e, bin, method) ==
    [k \in {"INDEX_TLX"} |-> e.xMin]
      @@ [k \in {"INDEX_TLY"} |-> e.yMax]
      @@ [k \in {"NUMBER_BINS_X"} |-> CeilDiv(e.xMax - e.xMin, bin)]
      @@ [k \in {"NUMBER_BINS_Y"} |-> CeilDiv(e.yMax - e.yMin, bin)]
      @@ [k \in {"INDEX_TYPE"} |-> method]
      @@ [k \in {"BIN_SIZE"} |-> bin]
      @@ h

\* lines 313-320: the output store as created, with its pixel grid
NewOutput(e) ==
    [open |-> TRUE,
     pixGrid |-> [xMin |-> e.xMin, xMax |-> e.xMax, yMin |-> e.yMin, yMax |-> e.yMax,
                  xRes |-> e.binSize, yRes |-> e.binSize],
     extent |-> <<>>,
     scaling |-> NoScaling,
     header |-> <<>>,
     writes |-> <<>>]

Call(op, tile) == [op |-> op, tile |-> tile]

\* lines 173-184 and 313-324: the header update and the head of indexAndMerge
OpenOutput ==
    /\ pc = "merge"
    /\ out = <<>>
    /\ header' = UpdatedHeader(header, extent[1], binSize, indexMethod)
    /\ out' = <<NewOutput(extent[1])>>
    /\ outCalls' = <<Call("setPixelGrid", 0)>>
    /\ nFilesProcessed' = 0
    /\ idx' = 1
    /\ UNCHANGED <<translateVars, scalingVars>>
    /\ UNCHANGED <<pc, error, indexMethod, extent, binSize, blockSize, subExtent,
                   extentList, newExtentList, files, data, nBlocks, nRead>>

\* the arrays a scratch store gives back: everything written to it, in the
\* order written
RECURSIVE ReadColumns(_, _)
ReadColumns(writes, array) ==
    IF writes = <<>>
    THEN <<>>
    ELSE LET w == writes[1]
             cols == IF w[array] = <<>>
                     THEN [i \in DOMAIN w.pulses |-> 0]
                     ELSE w[array][1]
         IN  cols \o ReadColumns(Tail(writes), array)

RECURSIVE ReadPulses(_)
ReadPulses(writes) ==
    IF writes = <<>> THEN <<>> ELSE writes[1].pulses \o ReadPulses(Tail(writes))

RECURSIVE ReadPoints(_)
ReadPoints(writes) ==
    IF writes = <<>> THEN <<>> ELSE writes[1].points \o ReadPoints(Tail(writes))

ReadOptional(writes, array) ==
    IF \A i \in DOMAIN writes : writes[i][array] = <<>>
    THEN <<>>
    ELSE <<ReadColumns(writes, array)>>

\* lines 331-335
ReadData(file) ==
    [pulses |-> ReadPulses(file.writes),
     points |-> ReadPoints(file.writes),
     trans |-> ReadOptional(file.writes, "trans"),
     recv |-> ReadOptional(file.writes, "recv"),
     waveformInfo |-> ReadOptional(file.writes, "waveformInfo")]

\* line 327
getTotalNumberPulses(file) == Len(ReadPulses(file.writes))

\* line 338: whether this tile is the one to take scaling and header from
IsFirstFile(n) == n = 0

\* MergeInto without the setExtent of line 337
MergeIntoNoExtent(o, tile, file, n, h) ==
    LET initialised ==
            IF IsFirstFile(n)
            THEN [o EXCEPT !.scaling = copyScaling(file.scaling, @), !.header = <<h>>]
            ELSE o
    IN  [initialised EXCEPT !.writes =
            Append(@, [extent |-> initialised.extent, data |-> ReadData(file)])]

\* lines 337-344: the output store after a tile with pulses has been merged;
\* a write is kept with the extent the store has when it is made
MergeInto(o, tile, file, n, h) ==
    LET withExtent == [o EXCEPT !.extent = <<tile.extent>>]
        initialised ==
            IF IsFirstFile(n)
            THEN [withExtent EXCEPT !.scaling = copyScaling(file.scaling, @),
                                    !.header = <<h>>]
            ELSE withExtent
    IN  [initialised EXCEPT !.writes =
            Append(@, [extent |-> initialised.extent, data |-> ReadData(file)])]

\* the calls lines 337-344 make on the output store for tile number t
MergeCalls(t, n) ==
    <<Call("setExtent", t)>>
      \o (IF IsFirstFile(n) THEN <<Call("copyScaling", t), Call("setHeader", t)>> ELSE <<>>)
      \o <<Call("writeData", t)>>

\* lines 325-347: one iteration of the loop over the reopened tiles
MergeStep ==
    /\ pc = "merge"
    /\ out # <<>>
    /\ idx <= Len(newExtentList)
    /\ LET tile == newExtentList[idx]
           file == files[tile.driver.fname]
       IN  IF getTotalNumberPulses(file) > 0
           THEN /\ out' = <<MergeInto(out[1], tile, file, nFilesProcessed, header)>>
                /\ outCalls' = outCalls \o MergeCalls(idx, nFilesProcessed)
           ELSE UNCHANGED <<out, outCalls>>
    /\ nFilesProcessed' = nFilesProcessed + 1
    /\ idx' = idx + 1
    /\ UNCHANGED <<translateVars, scalingVars>>
    /\ UNCHANGED <<pc, error, indexMethod, header, extent, binSize, blockSize,
                   subExtent, extentList, newExtentList, files, data, nBlocks, nRead>>

\* the calls lines 337-340 make before the writeData of line 343
CallsBeforeWrite(t, n) == SubSeq(MergeCalls(t, n), 1, Len(MergeCalls(t, n)) - 1)

\* lines 325-347: an iteration of the loop that fails: a read of the tile
\* raises (lines 327-335), or, for a tile with pulses, the writeData on the
\* output store raises (line 343); neither indexAndMerge nor
\* createGridSpatialIndex catches it, and line 349 and lines 187-190 are not
\* reached
MergeFails ==
    /\ pc = "merge"
    /\ out # <<>>
    /\ idx <= Len(newExtentList)
    /\ LET tile == newExtentList[idx]
           file == files[tile.driver.fname]
           merged == MergeInto(out[1], tile, file, nFilesProcessed, header)
       IN  \/ UNCHANGED <<out, outCalls>>
           \/ /\ getTotalNumberPulses(file) > 0
              /\ out' = <<[merged EXCEPT !.writes = out[1].writes]>>
              /\ outCalls' = outCalls \o CallsBeforeWrite(idx, nFilesProcessed)
    /\ Raise("IOError")
    /\ UNCHANGED <<translateVars, scalingVars>>
    /\ UNCHANGED <<indexMethod, header, extent, binSize, blockSize, subExtent,
                   extentList, newExtentList, files, data, nBlocks, nRead,
                   nFilesProcessed, idx>>

\* line 349
CloseOutput ==
    /\ pc = "merge"
    /\ out # <<>>
    /\ idx > Len(newExtentList)
    /\ out' = <<[out[1] EXCEPT !.open = FALSE]>>
    /\ outCalls' = Append(outCalls, Call("close", 0))
    /\ pc' = "cleanup"
    /\ idx' = 1
    /\ UNCHANGED <<translateVars, scalingVars>>
    /\ UNCHANGED <<error, indexMethod, header, extent, binSize, blockSize, subExtent,
                   extentList, newExtentList, files, data, nBlocks, nRead,
                   nFilesProcessed>>

-----------------------------------------------------------------------------
\* createGridSpatialIndex: close the scratch stores and delete them

\* lines 187-190: one iteration of the loop over newExtentList (its loop
\* variable, which takes the name extent, is the tile at idx)
CleanupStep ==
    /\ pc = "cleanup"
    /\ LET fname == newExtentList[idx].driver.fname
       IN  /\ newExtentList' = [newExtentList EXCEPT ![idx].driver.open = FALSE]
           /\ files' = [files EXCEPT ![fname].exists = FALSE]
    /\ idx' = idx + 1
    /\ pc' = IF idx = Len(newExtentList) THEN "done" ELSE "cleanup"
    /\ UNCHANGED <<translateVars, scalingVars>>
    /\ UNCHANGED <<error, indexMethod, header, extent, binSize, blockSize, subExtent,
                   extentList, data, nBlocks, nRead, out, outCalls, nFilesProcessed>>

-----------------------------------------------------------------------------
-----------------------------------------------------------------------------
\* Conversion of a LAS file to SPD V4 (pylidar/toolbox/translate/las2spdv4.py):
\* doProcessing runs rangeFunc over every chunk of the input to fill
\* otherDict, then transFunc over every chunk again to write the output.
\*
\* A dictionary is a function from its keys; the keys of one table are taken
\* in the order of the list of scaled fields, the order rangeFunc puts them in.

\* most chunks the input is read in
MaxChunks == 3

DefaultGain == 100
DefaultZOffset == -100

PULSE_DEFAULT_GAINS ==
    [f \in {"X_ORIGIN", "Y_ORIGIN", "Z_ORIGIN", "AZIMUTH", "ZENITH", "X_IDX", "Y_IDX"} |->
        DefaultGain]
PULSE_DEFAULT_OFFSETS ==
    [f \in {"X_ORIGIN", "Y_ORIGIN", "Z_ORIGIN", "AZIMUTH", "ZENITH", "X_IDX", "Y_IDX"} |-> 0]

POINT_DEFAULT_GAINS == [f \in {"X", "Y", "Z", "HEIGHT"} |-> DefaultGain]
POINT_DEFAULT_OFFSETS ==
    [f \in {"X", "Y", "Z", "HEIGHT"} |-> IF f \in {"Z", "HEIGHT"} THEN DefaultZOffset ELSE 0]

WAVEFORM_DEFAULT_GAINS == [f \in {"RANGE_TO_WAVEFORM_START"} |-> DefaultGain]
WAVEFORM_DEFAULT_OFFSETS == [f \in {"RANGE_TO_WAVEFORM_START"} |-> 0]

\* the fields of spdv4 that are stored scaled, those the arrays below hold
PULSE_SCALED_FIELDS == <<"X_IDX", "Y_IDX", "H_ORIGIN">>
POINT_SCALED_FIELDS == <<"X", "Z">>
WAVEFORM_SCALED_FIELDS == <<"RANGE_TO_WAVEFORM_START">>

\* the records of the input: a pulse, a point and a waveform of value v; a
\* pulse of this driver has no H_ORIGIN, and RETURN_NUMBER is stored unscaled
LasPulse(v) == [X_IDX |-> v, Y_IDX |-> 3 - v, PULSE_ID |-> 7]
LasPoint(v) == [X |-> v * v, Z |-> v, RETURN_NUMBER |-> 1]
LasWaveform(v) == [RANGE_TO_WAVEFORM_START |-> v]

LasChunk(pulses, points, waveforms) ==
    [pulses |-> [i \in DOMAIN pulses |-> LasPulse(pulses[i])],
     points |-> [i \in DOMAIN points |-> LasPoint(points[i])],
     waveformInfo |-> [i \in DOMAIN waveforms |-> LasWaveform(waveforms[i])]]

\* the chunks of the model: each array empty or not, a minimum below, at and
\* above the default offset
LasChunks ==
    {LasChunk(pu, po, wa) :
        pu \in {<<>>, <<2>>, <<-1, 3>>},
        po \in {<<>>, <<-100, 5>>, <<-101>>},
        wa \in {<<>>, <<4>>}}

LasFiles == UNION {[1..n -> LasChunks] : n \in 0..MaxChunks}

\* d[k] = v
Put(d, k, v) == [x \in DOMAIN d \cup {k} |-> IF x = k THEN v ELSE d[x]]

\* dtype.names of a structured array with at least one record
Names(arr) == DOMAIN arr[1]

\* arr[field].min() and arr[field].max()
MinOf(arr, field) ==
    CHOOSE v \in {arr[i][field] : i \in DOMAIN arr} :
        \A i \in DOMAIN arr : v <= arr[i][field]
MaxOf(arr, field) ==
    CHOOSE v \in {arr[i][field] : i \in DOMAIN arr} :
        \A i \in DOMAIN arr : v >= arr[i][field]

\* AddSize with = where the code has +=
AddSizeOfLast(h, key, size) == Put(h, key, size)

\* lines 55-58: the header with size added under key
AddSize(h, key, size) ==
    IF key \notin DOMAIN h THEN Put(h, key, size) ELSE Put(h, key, h[key] + size)

\* lines 66-67: whether the minimum of the chunk replaces the one recorded
NewMin(table, field, arr) ==
    field \o "_MIN" \notin DOMAIN table \/ MinOf(arr, field) < table[field \o "_MIN"]
\* lines 69-70
NewMax(table, field, arr) ==
    field \o "_MAX" \notin DOMAIN table \/ MaxOf(arr, field) > table[field \o "_MAX"]

\* lines 62-71: the table with the range of one field of arr taken in
WithRange(table, field, arr) ==
    LET withMin == IF NewMin(table, field, arr)
                   THEN Put(table, field \o "_MIN", MinOf(arr, field))
                   ELSE table
    IN  IF NewMax(table, field, arr)
        THEN Put(withMin, field \o "_MAX", MaxOf(arr, field))
        ELSE withMin

\* lines 85-92: the header follows the points table, key by key
HeaderWithRange(h, table, field, arr) ==
    LET withMin == IF NewMin(table, field, arr)
                   THEN Put(h, field \o "_MIN", MinOf(arr, field))
                   ELSE h
    IN  IF NewMax(table, field, arr)
        THEN Put(withMin, field \o "_MAX", MaxOf(arr, field))
        ELSE withMin

\* lines 59-71 (99-111): the loop over the scaled fields for one table
RECURSIVE RangeOfFields(_, _, _)
RangeOfFields(table, arr, fields) ==
    IF fields = <<>>
    THEN table
    ELSE RangeOfFields(IF Head(fields) \in Names(arr)
                       THEN WithRange(table, Head(fields), arr)
                       ELSE table,
                       arr, Tail(fields))

\* lines 78-92: the same loop for the points, on the header
RECURSIVE HeaderOfFields(_, _, _, _)
HeaderOfFields(h, table, arr, fields) ==
    IF fields = <<>>
    THEN h
    ELSE IF Head(fields) \in Names(arr)
         THEN HeaderOfFields(HeaderWithRange(h, table, Head(fields), arr),
                             WithRange(table, Head(fields), arr), arr, Tail(fields))
         ELSE HeaderOfFields(h, table, arr, Tail(fields))

EmptyRangeDict == [pulses |-> <<>>, points |-> <<>>, waveforms |-> <<>>, header |-> <<>>]

\* lines 45-111: rangeDict after rangeFunc(data, rangeDict)
rangeFunc(chunk, rd) ==
    LET afterPulses ==
            IF Len(chunk.pulses) > 0
            THEN [rd EXCEPT
                    !.header = AddSize(@, "NUMBER_OF_PULSES", Len(chunk.pulses)),
                    !.pulses = RangeOfFields(@, chunk.pulses, PULSE_SCALED_FIELDS)]
            ELSE rd
        afterPoints ==
            IF Len(chunk.points) > 0
            THEN [afterPulses EXCEPT
                    !.header = HeaderOfFields(
                                  AddSize(@, "NUMBER_OF_POINTS", Len(chunk.points)),
                                  afterPulses.points, chunk.points, POINT_SCALED_FIELDS),
                    !.points = RangeOfFields(@, chunk.points, POINT_SCALED_FIELDS)]
            ELSE afterPulses
    IN  IF Len(chunk.waveformInfo) > 0
        THEN [afterPoints EXCEPT
                !.header = AddSize(@, "NUMBER_OF_WAVEFORMS", Len(chunk.waveformInfo)),
                !.waveforms = RangeOfFields(@, chunk.waveformInfo, WAVEFORM_SCALED_FIELDS)]
        ELSE afterPoints

\* key.endswith('_MIN') and key[0:-4]
IsMinKey(key) == Len(key) >= 4 /\ SubSeq(key, Len(key) - 3, Len(key)) = "_MIN"
FieldOf(key) == SubSeq(key, 1, Len(key) - 4)

\* table.keys(): the keys in the order rangeFunc has put them in
Keys(table, fields) ==
    SelectSeq([i \in 1..(2 * Len(fields)) |->
                  fields[(i + 1) \div 2] \o (IF i % 2 = 1 THEN "_MIN" ELSE "_MAX")],
              LAMBDA k : k \in DOMAIN table)

\* lines 176-186: "" or the name of the exception raised.  The message is
\* built as a + b + (c % varName), and c holds no conversion: formatting it
\* with a string raises TypeError before the raise statement is reached.
checkScalingPositive(gain, offset, minVal, varName) ==
    IF (minVal - offset) * gain < 0 THEN "TypeError" ELSE ""

OutputCall(op, arg) == [op |-> op, arg |-> arg]

DefaultGains(type) ==
    CASE type = ARRAY_TYPE_PULSES -> PULSE_DEFAULT_GAINS
      [] type = ARRAY_TYPE_POINTS -> POINT_DEFAULT_GAINS
      [] type = ARRAY_TYPE_WAVEFORMS -> WAVEFORM_DEFAULT_GAINS
DefaultOffsets(type) ==
    CASE type = ARRAY_TYPE_PULSES -> PULSE_DEFAULT_OFFSETS
      [] type = ARRAY_TYPE_POINTS -> POINT_DEFAULT_OFFSETS
      [] type = ARRAY_TYPE_WAVEFORMS -> WAVEFORM_DEFAULT_OFFSETS

\* lines 120-136 (140-157, 161-174): the body of the loop for one _MIN key.
\* st is the run so far: the calls made on the output and the exception
\* raised.  The waveform loop does not check; the branch of a field without
\* defaults reads np, a name the module does not bind (it imports numpy).
SetScalingOf(st, table, key, type) ==
    LET field == FieldOf(key)
        exc == IF type = ARRAY_TYPE_WAVEFORMS
               THEN ""
               ELSE checkScalingPositive(DefaultGains(type)[field],
                                         DefaultOffsets(type)[field], table[key], key)
    IN  IF field \notin DOMAIN DefaultGains(type)
        THEN [st EXCEPT !.raised = "NameError"]
        ELSE IF exc # ""
        THEN [st EXCEPT !.raised = exc]
        ELSE [st EXCEPT !.calls =
                Append(@, OutputCall("setScaling",
                                     <<field, type, DefaultGains(type)[field],
                                       DefaultOffsets(type)[field]>>))]

\* lines 119, 139, 160: one loop over the keys of a table
RECURSIVE SetScalings(_, _, _, _)
SetScalings(st, table, keys, type) ==
    IF keys = <<>> \/ st.raised # ""
    THEN st
    ELSE SetScalings(IF IsMinKey(Head(keys))
                     THEN SetScalingOf(st, table, Head(keys), type)
                     ELSE st,
                     table, Tail(keys), type)

\* lines 113-174
setOutputScaling(rd, st) ==
    LET pulses == SetScalings(st, rd.pulses, Keys(rd.pulses, PULSE_SCALED_FIELDS),
                              ARRAY_TYPE_PULSES)
        points == SetScalings(pulses, rd.points, Keys(rd.points, POINT_SCALED_FIELDS),
                              ARRAY_TYPE_POINTS)
    IN  SetScalings(points, rd.waveforms, Keys(rd.waveforms, WAVEFORM_SCALED_FIELDS),
                    ARRAY_TYPE_WAVEFORMS)

\* lines 205-215, for a file that carries its projection (epsg is None)
setHeaderValues(rd, st) == [st EXCEPT !.calls = Append(@, OutputCall("setHeader", rd.header))]

\* lines 232-237: the arrays of the chunk handed to the output; the input
\* gives received samples for its waveforms and for nothing else
WriteChunk(chunk, st) ==
    LET written == <<OutputCall("setPoints", chunk.points),
                     OutputCall("setPulses", chunk.pulses)>>
        waves == IF Len(chunk.waveformInfo) > 0
                 THEN <<OutputCall("setWaveformInfo", chunk.waveformInfo),
                        OutputCall("setReceived", chunk.waveformInfo)>>
                 ELSE <<>>
    IN  [st EXCEPT !.calls = @ \o written \o waves]

\* lines 217-237: the calls on the output and the exception after
\* transFunc(data, otherDict)
transFunc(chunk, rd, isFirstBlock, calls) ==
    LET st == [calls |-> calls, raised |-> ""]
        scaled == IF isFirstBlock THEN setOutputScaling(rd, st) ELSE st
    IN  IF scaled.raised # ""
        THEN scaled
        ELSE WriteChunk(chunk, IF isFirstBlock THEN setHeaderValues(rd, scaled) ELSE scaled)

-----------------------------------------------------------------------------
\* translate: the two passes over the input (lines 282-291)

TranslateInit ==
    /\ GridIdle
    /\ ScalingIdle
    /\ tpc = "range"
    /\ lasFile \in LasFiles
    /\ nChunk = 0
    /\ rangeDict = EmptyRangeDict
    /\ output1 = <<>>
    /\ raised = ""

\* line 283: doProcessing calls rangeFunc on the next chunk
RangeStep ==
    /\ tpc = "range"
    /\ nChunk < Len(lasFile)
    /\ rangeDict' = rangeFunc(lasFile[nChunk + 1], rangeDict)
    /\ nChunk' = nChunk + 1
    /\ UNCHANGED <<tpc, lasFile, output1, raised>>
    /\ UNCHANGED <<gridVars, scalingVars>>

\* lines 283-288: the first pass returns and the output file is created
RangeDone ==
    /\ tpc = "range"
    /\ nChunk = Len(lasFile)
    /\ tpc' = "trans"
    /\ nChunk' = 0
    /\ UNCHANGED <<lasFile, rangeDict, output1, raised>>
    /\ UNCHANGED <<gridVars, scalingVars>>

\* line 290: doProcessing calls transFunc on the next chunk
TransStep ==
    /\ tpc = "trans"
    /\ nChunk < Len(lasFile)
    /\ LET st == transFunc(lasFile[nChunk + 1], rangeDict, nChunk = 0, output1)
       IN  /\ output1' = st.calls
           /\ raised' = st.raised
           /\ tpc' = IF st.raised # "" THEN "failed" ELSE tpc
    /\ nChunk' = nChunk + 1
    /\ UNCHANGED <<lasFile, rangeDict>>
    /\ UNCHANGED <<gridVars, scalingVars>>

\* line 291: the second pass returns
TransDone ==
    /\ tpc = "trans"
    /\ nChunk = Len(lasFile)
    /\ tpc' = "done"
    /\ UNCHANGED <<lasFile, nChunk, rangeDict, output1, raised>>
    /\ UNCHANGED <<gridVars, scalingVars>>

TranslateNext ==
    \/ RangeStep
    \/ RangeDone
    \/ TransStep
    \/ TransDone

TranslateSpec == TranslateInit /\ [][TranslateNext]_vars

-----------------------------------------------------------------------------
-----------------------------------------------------------------------------
\* copyScaling on its own: one call, on two stores each holding scaling for
\* any of the fields

\* the fields whose scaling a store of the model holds or lacks
VariedFields == {"H_ORIGIN", "X_IDX", "ZENITH", "Z", "HEIGHT", "RANGE_TO_WAVEFORM_START"}

\* the table holding scaling s for the fields S and for no other
ScalingTable(S, s) == [k \in ScalingKeys |-> IF k[1] \in S THEN <<s>> ELSE <<>>]

\* the stores copied from hold one scaling, the stores copied to another
InputTables == {ScalingTable(S, Scaling(<<100, 1>>, 0)) : S \in SUBSET VariedFields}
OutputTables == {ScalingTable(S, Scaling(<<1, 1>>, 0 - 100)) : S \in SUBSET VariedFields}

ScalingInit ==
    /\ GridIdle
    /\ TranslateIdle
    /\ scalingIn \in InputTables
    /\ scalingOut \in OutputTables
    /\ scalingWas = <<>>

\* lines 204-232: copyScaling(input, output); input.getScaling leaves the
\* input as it is
CopyScaling ==
    /\ scalingWas = <<>>
    /\ scalingOut' = copyScaling(scalingIn, scalingOut)
    /\ scalingWas' = <<[input |-> scalingIn, output |-> scalingOut]>>
    /\ UNCHANGED scalingIn
    /\ UNCHANGED <<gridVars, translateVars>>

ScalingNext == CopyScaling

ScalingSpec == ScalingInit /\ [][ScalingNext]_vars

-----------------------------------------------------------------------------
-----------------------------------------------------------------------------
\* Properties

\* the tiling loop has ended
TilingDone == extentList # <<>> /\ pc \notin {"start", "tiling"}

Count(v, s) == Cardinality({i \in DOMAIN s : s[i] = v})

RECURSIVE SumSeq(_)
SumSeq(s) == IF s = <<>> THEN 0 ELSE s[1] + SumSeq(Tail(s))

\* the tiling key of pulse p under the configured method
KeyX(p) ==
    IF indexMethod = INDEX_SPHERICAL THEN p.AZIMUTH
    ELSE IF indexMethod = INDEX_SCAN THEN p.SCANLINE_IDX
    ELSE p.X_IDX

KeyY(p) ==
    IF indexMethod = INDEX_SPHERICAL THEN p.ZENITH
    ELSE IF indexMethod = INDEX_SCAN THEN p.SCANLINE
    ELSE p.Y_IDX

\* pulse p as a scratch store holds it
Keyed(p) == [p EXCEPT !.X_IDX = KeyX(p), !.Y_IDX = KeyY(p)]

\* what the last classifyFunc call wrote to scratch file f
LastWrite(f) == files[f].writes[Len(files[f].writes)]

\* a chunk has been split over the tiles by classifyFunc
ChunkWritten ==
    /\ data # <<>>
    /\ Supported(indexMethod)
    /\ pc = "partition"

\* in how many tiles' last write pulse p of the last chunk appears
TimesWritten(p) ==
    SumSeq([f \in DOMAIN files |-> Count(Keyed(p), LastWrite(f).pulses)])

\* the pulses all scratch files hold
TotalWritten == SumSeq([f \in DOMAIN files |-> getTotalNumberPulses(files[f])])

\* the keys at and next to the bounds of tiles s and t: two tiles that share
\* a key share one of these
ProbeKeys(s, t) ==
    {<<x, y>> : x \in {s.xMin, t.xMin, s.xMax - 1, t.xMax - 1, s.xMax, t.xMax},
                y \in {s.yMax, t.yMax, s.yMin + 1, t.yMin + 1, s.yMin, t.yMin}}

\* C3: no key passes the membership test of two different tiles of the list,
\* so no pulse of a chunk is written to more scratch stores than it occurs in
\* the chunk, and the scratch stores together never hold more pulses than
\* were read.
NoDoubleAssignment ==
    /\ pc \in {"tiling", "partition"} =>
          \A i, j \in DOMAIN extentList :
              i # j =>
                  \A k \in ProbeKeys(extentList[i].extent, extentList[j].extent) :
                      ~(/\ InTile(k[1], k[2], extentList[i].extent)
                        /\ InTile(k[1], k[2], extentList[j].extent))
    /\ ChunkWritten =>
          \A p \in Range(data[1].pulses) :
              TimesWritten(p) <= Count(p, data[1].pulses)
    /\ Supported(indexMethod) => TotalWritten <= nRead

\* a pulse whose key lies on the bound shared by two tiles of a row has been
\* written to one of them
NoDoubleAssignmentWitness ==
    /\ ChunkWritten
    /\ \E i, j \in DOMAIN extentList :
          \E p \in Range(data[1].pulses) :
              /\ extentList[i].extent.xMax = extentList[j].extent.xMin
              /\ extentList[i].extent.yMax = extentList[j].extent.yMax
              /\ KeyX(p) = extentList[j].extent.xMin
              /\ TimesWritten(p) = 1
              /\ Count(Keyed(p), LastWrite(j).pulses) = 1

\* the tile list of the example: (xMin, xMax, yMin, yMax) in row-major order
ExampleTiles ==
    <<Extent(0, 50, 50, 100, 1), Extent(50, 100, 50, 100, 1),
      Extent(0, 50, 0, 50, 1), Extent(50, 100, 0, 50, 1)>>

TileColumns == CeilDiv(extent[1].xMax - extent[1].xMin, blockSize[1])
TileRows == CeilDiv(extent[1].yMax - extent[1].yMin, blockSize[1])

\* C5: the tiling loop ends with ceil(W/b) * ceil(H/b) tiles (it runs while
\* it has fewer), tile k (from 0) has xMin = extent.xMin + (k mod C) * b and
\* yMax = extent.yMax - (k div C) * b, no tile has yMax <= extent.yMin, and
\* the extent (0,100,0,100) with b = 50 gives the four tiles of the example.
RowMajorTiling ==
    /\ pc = "tiling" => Len(extentList) < TileColumns * TileRows
    /\ TilingDone => Len(extentList) = TileColumns * TileRows
    /\ pc # "start" /\ extent # <<>> =>
          \A k \in DOMAIN extentList :
              /\ extentList[k].extent.xMin =
                    extent[1].xMin + ((k - 1) % TileColumns) * blockSize[1]
              /\ extentList[k].extent.yMax =
                    extent[1].yMax - ((k - 1) \div TileColumns) * blockSize[1]
              /\ extentList[k].extent.yMax > extent[1].yMin
    /\ TilingDone /\ extent[1] = ExampleExtent /\ blockSize[1] = ExampleBlockSize =>
          [k \in DOMAIN extentList |-> extentList[k].extent] = ExampleTiles

\* a finished tiling of two columns and two rows of an extent whose width is
\* no multiple of the block size
RowMajorTilingWitness ==
    /\ TilingDone
    /\ TileColumns >= 2
    /\ TileRows >= 2
    /\ (extent[1].xMax - extent[1].xMin) % blockSize[1] # 0

\* ---- partition against the global extent

Inside(x, y, e) == e.xMin <= x /\ x <= e.xMax /\ e.yMin <= y /\ y <= e.yMax

StrictlyOutside(x, y, e) == x < e.xMin \/ x > e.xMax \/ y < e.yMin \/ y > e.yMax

\* C1: every pulse of a chunk whose key lies inside the global extent
\* (bounds included) is written to the scratch store of exactly one tile.
PartitionExclusivityInside ==
    ChunkWritten =>
        \A p \in Range(data[1].pulses) :
            Inside(KeyX(p), KeyY(p), extent[1]) =>
                TimesWritten(p) = Count(p, data[1].pulses)

\* C2: no tile reaches outside the global extent, and a pulse whose key lies
\* strictly outside the global extent is written to no scratch store.
TilingCoverageExact ==
    /\ TilingDone =>
          \A t \in DOMAIN extentList :
              /\ extent[1].xMin <= extentList[t].extent.xMin
              /\ extentList[t].extent.xMax <= extent[1].xMax
              /\ extent[1].yMin <= extentList[t].extent.yMin
              /\ extentList[t].extent.yMax <= extent[1].yMax
    /\ ChunkWritten =>
          \A p \in Range(data[1].pulses) :
              StrictlyOutside(KeyX(p), KeyY(p), extent[1]) => TimesWritten(p) = 0

\* ---- merge

\* calls of kind op made on the output store so far
CallsOf(op) == SelectSeq(outCalls, LAMBDA c : c.op = op)

\* the position in outCalls of the first call of kind op (0: none)
FirstCall(op) ==
    IF CallsOf(op) = <<>>
    THEN 0
    ELSE CHOOSE i \in DOMAIN outCalls :
            /\ outCalls[i].op = op
            /\ \A j \in 1..(i - 1) : outCalls[j].op # op

\* C4: once data is written to the output store, copyScaling onto it and
\* setHeader have each been performed exactly once, for the tile of the
\* first writeData and before that writeData.
OneTimeOutputInit ==
    CallsOf("writeData") # <<>> =>
        /\ Len(CallsOf("copyScaling")) = 1
        /\ Len(CallsOf("setHeader")) = 1
        /\ CallsOf("copyScaling")[1].tile = CallsOf("writeData")[1].tile
        /\ CallsOf("setHeader")[1].tile = CallsOf("writeData")[1].tile
        /\ FirstCall("copyScaling") < FirstCall("writeData")
        /\ FirstCall("setHeader") < FirstCall("writeData")

\* the tiles the merge loop has been through
Merged ==
    IF pc = "merge" /\ out # <<>> THEN idx - 1
    ELSE IF pc \in {"cleanup", "done"} THEN Len(newExtentList)
    ELSE 0

HoldsPulses(t) ==
    \E w \in Range(files[extentList[t].driver.fname].writes) : w.pulses # <<>>

\* the tiles among the first n that hold pulses, in tile order
NonEmptyTiles(n) == SelectSeq([t \in 1..n |-> t], HoldsPulses)

\* C6: the reopened list keeps the order of the tiler's list; while the
\* merge has not failed, the output store has received, for each tile with
\* pulses the merge loop has been through and in tile order, setExtent with
\* the tile's sub-extent followed by one writeData of the tile's data, and
\* no call for a tile without pulses.
MergeProtocol ==
    /\ \A t \in DOMAIN newExtentList :
          /\ newExtentList[t].extent = extentList[t].extent
          /\ newExtentList[t].driver.fname = extentList[t].driver.fname
    /\ out # <<>> /\ pc # "failed" =>
          LET ne == NonEmptyTiles(Merged)
              protocol == SelectSeq(outCalls, LAMBDA c : c.op \in {"setExtent", "writeData"})
          IN  /\ Len(out[1].writes) = Len(ne)
              /\ \A k \in DOMAIN ne :
                    /\ out[1].writes[k].extent = <<extentList[ne[k]].extent>>
                    /\ out[1].writes[k].data =
                          ReadData(files[extentList[ne[k]].driver.fname])
                    /\ out[1].writes[k].data.pulses # <<>>
              /\ protocol =
                    [m \in 1..(2 * Len(ne)) |->
                        Call(IF m % 2 = 1 THEN "setExtent" ELSE "writeData",
                             ne[(m + 1) \div 2])]
              /\ \A c \in Range(outCalls) : c.tile \in {0} \cup Range(ne)

\* a finished merge of a list with two tiles holding pulses after a tile
\* holding none
MergeProtocolWitness ==
    /\ pc = "done"
    /\ Len(NonEmptyTiles(Len(newExtentList))) = 2
    /\ ~HoldsPulses(1)

\* whether scaling table sc holds for field the gain span / range and the offset
HasRangeScaling(sc, field, range, offset) ==
    LET s == sc[<<field, ARRAY_TYPE_PULSES>>]
    IN  /\ s # <<>>
        /\ s[1].offset = offset
        /\ s[1].gain[1] * range = (IInfoMax - IInfoMin) * s[1].gain[2]

\* C7: after a run that ended normally with a pulse written to some tile, the
\* output store's X_IDX and Y_IDX scaling are the ones of the global extent.
GlobalKeyScalingAfterMerge ==
    pc = "done" /\ TotalWritten > 0 =>
        /\ HasRangeScaling(out[1].scaling, "X_IDX",
                           extent[1].xMax - extent[1].xMin, extent[1].xMin)
        /\ HasRangeScaling(out[1].scaling, "Y_IDX",
                           extent[1].yMax - extent[1].yMin, extent[1].yMin)

\* value v scaled by the scaling of field in table sc lies in 0..IInfoMax
ScaledInRange(sc, field, v) ==
    LET s == sc[<<field, ARRAY_TYPE_PULSES>>]
    IN  /\ s # <<>>
        /\ 0 <= (v - s[1].offset) * s[1].gain[1]
        /\ (v - s[1].offset) * s[1].gain[1] <= IInfoMax * s[1].gain[2]

\* C8: for every pulse written to a scratch store, X_IDX and Y_IDX scaled by
\* the store's scaling lie in 0..maxRepresentableInteger.
KeyScalingValid ==
    \A f \in DOMAIN files :
        \A w \in Range(files[f].writes) :
            \A p \in Range(w.pulses) :
                /\ ScaledInRange(files[f].scaling, "X_IDX", p.X_IDX)
                /\ ScaledInRange(files[f].scaling, "Y_IDX", p.Y_IDX)

\* ---- alignment of the arrays written

\* the positions of the last chunk whose key passes the membership test of e
Selected(e) ==
    {i \in DOMAIN data[1].pulses :
        InTile(KeyX(data[1].pulses[i]), KeyY(data[1].pulses[i]), e)}

\* the k-th smallest element of the set S of numbers
Nth(S, k) == CHOOSE i \in S : Cardinality({j \in S : j < i}) = k - 1

\* arr restricted to the positions S, in the order of arr
Restriction(arr, S) == [k \in 1..Cardinality(S) |-> arr[Nth(S, k)]]

RestrictionOptional(arr, S) ==
    IF arr = <<>> \/ \A i \in DOMAIN arr[1] : arr[1][i] = 0
    THEN <<>>
    ELSE <<Restriction(arr[1], S)>>

\* every array written for the last chunk is the input array restricted to
\* the positions the tile's membership test selects; pulse p is written as
\* written(p)
Aligned(written(_)) ==
    ChunkWritten =>
        \A f \in DOMAIN files :
            LET S == Selected(extentList[f].extent)
                w == LastWrite(f)
                chunk == data[1]
            IN  /\ w.pulses =
                      Restriction([i \in DOMAIN chunk.pulses |-> written(chunk.pulses[i])], S)
                /\ w.points = Restriction(chunk.points, S)
                /\ w.waveformInfo = RestrictionOptional(chunk.waveformInfo, S)
                /\ w.recv = RestrictionOptional(chunk.recv, S)
                /\ w.trans = RestrictionOptional(chunk.trans, S)

Unchanged(p) == p

\* C9 as stated: the pulses, points-by-pulse, waveform-info, received and
\* transmitted arrays written to a tile are the input arrays restricted to
\* the positions of the one mask, in order; an absent or empty optional array
\* is written as absent.
RoundTripAlignment == Aligned(Unchanged)

\* C9 amended: as stated, except that each written pulse holds its tiling key
\* in X_IDX and Y_IDX.
RoundTripAlignmentKeyed == Aligned(Keyed)

\* a chunk of two pulses with waveforms, keyed by azimuth and zenith, of
\* which a tile takes the second only
RoundTripAlignmentWitness ==
    /\ ChunkWritten
    /\ indexMethod = INDEX_SPHERICAL
    /\ Len(data[1].pulses) = 2
    /\ data[1].pulses[1] # data[1].pulses[2]
    /\ data[1].waveformInfo # <<>>
    /\ ArraySize(data[1].waveformInfo[1]) > 0
    /\ \E f \in DOMAIN files :
          /\ Selected(extentList[f].extent) = {2}
          /\ Len(LastWrite(f).pulses) = 1

\* ---- configuration errors

\* C10: with an indexing method other than Cartesian, spherical or scan the
\* run fails with the unsupported-indexing-method error before any scratch
\* store is created, and the output store is never created.
UnsupportedMethodFailsImmediately ==
    ~Supported(indexMethod) =>
        /\ pc \in {"start", "failed"}
        /\ pc = "failed" => error = "LiDARSpatialIndexNotAvailable"
        /\ files = <<>>
        /\ out = <<>>

\* ---- conversion of LAS to SPD V4

\* the fields with default scaling whose recorded minimum the default
\* gain and offset map to a negative value
NegativeFields(table, gains, offsets) ==
    {f \in DOMAIN gains :
        /\ f \o "_MIN" \in DOMAIN table
        /\ (table[f \o "_MIN"] - offsets[f]) * gains[f] < 0}

NegativelyScaled ==
    NegativeFields(rangeDict.pulses, PULSE_DEFAULT_GAINS, PULSE_DEFAULT_OFFSETS)
      \cup NegativeFields(rangeDict.points, POINT_DEFAULT_GAINS, POINT_DEFAULT_OFFSETS)

\* transFunc has been called on the first block
FirstBlockDone == tpc \in {"trans", "done", "failed"} /\ (nChunk > 0 \/ tpc = "done")

DataCalls == SelectSeq(output1, LAMBDA c : c.op \in {"setPoints", "setPulses"})

\* C11: when a pulse or point field with default scaling has a minimum that
\* scales to a negative value, the first transFunc call fails with
\* LiDARInvalidSetting before any setPoints or setPulses call on the output;
\* when there is no such field, no scaling failure is raised.
ScalingDomainErrorTyped ==
    tpc # "idle" /\ tpc # "range" =>
        /\ NegativelyScaled # {} /\ FirstBlockDone =>
              /\ tpc = "failed"
              /\ nChunk = 1
              /\ raised = "LiDARInvalidSetting"
              /\ DataCalls = <<>>
        /\ NegativelyScaled = {} => raised = ""

\* ---- shape of the tiles

\* C12: every tile of the list is higher than zero, and a tile whose
\* yMax - blockSize lies below the global extent's yMin has that yMin as
\* its own.
LastRowClamping ==
    \A t \in DOMAIN extentList :
        LET s == extentList[t].extent
        IN  /\ s.yMin < s.yMax
            /\ s.yMax - blockSize[1] < extent[1].yMin => s.yMin = extent[1].yMin

\* C13: no tile is wider or higher than blockSize, and the width and the
\* height of every tile are multiples of binSize.
TileSizeAndAlignment ==
    \A t \in DOMAIN extentList :
        LET s == extentList[t].extent
        IN  /\ s.xMax - s.xMin <= blockSize[1]
            /\ s.yMax - s.yMin <= blockSize[1]
            /\ (s.xMax - s.xMin) % binSize = 0
            /\ (s.yMax - s.yMin) % binSize = 0

\* ---- life of the scratch stores

CREATED == 1
POPULATED == 2
CLOSED_FOR_READ == 3
MERGED == 4
DELETED == 5

\* where tile t is in its life
Lifecycle(t) ==
    IF ~files[extentList[t].driver.fname].exists THEN DELETED
    ELSE IF t <= Merged THEN MERGED
    ELSE IF t <= Len(newExtentList) THEN CLOSED_FOR_READ
    ELSE IF files[extentList[t].driver.fname].writes # <<>> THEN POPULATED
    ELSE CREATED

OutputClosed == out # <<>> /\ ~out[1].open

\* what holds of the tiles in every state of a run that has not failed
LifecycleState ==
    pc # "failed" =>
        /\ \A s, t \in DOMAIN extentList :
              s # t => extentList[s].driver.fname # extentList[t].driver.fname
        /\ \A t \in DOMAIN extentList :
              /\ extentList[t].driver.mode = "CREATE"
              /\ Lifecycle(t) < CLOSED_FOR_READ <=> extentList[t].driver.open
              /\ Lifecycle(t) >= CLOSED_FOR_READ =>
                    /\ newExtentList[t].driver.mode = "READ"
                    /\ newExtentList[t].driver.fname = extentList[t].driver.fname
                    /\ Lifecycle(t) < DELETED <=> newExtentList[t].driver.open
              /\ Lifecycle(t) >= MERGED =>
                    \A u \in DOMAIN extentList : Lifecycle(u) >= CLOSED_FOR_READ
              /\ Lifecycle(t) = DELETED => OutputClosed
        /\ out # <<>> => \A t \in DOMAIN extentList : Lifecycle(t) >= CLOSED_FOR_READ
        /\ pc = "done" => \A t \in DOMAIN extentList : Lifecycle(t) = DELETED

\* what holds of every step of a run that does not fail with it
LifecycleStep ==
    pc' # "failed" =>
        \A t \in DOMAIN extentList :
            LET f == extentList[t].driver.fname
            IN  /\ Lifecycle(t)' >= Lifecycle(t)
                /\ files'[f].writes # files[f].writes =>
                      extentList[t].driver.open /\ extentList'[t].driver.open
                /\ files'[f].exists # files[f].exists =>
                      /\ files[f].exists
                      /\ newExtentList[t].driver.open
                      /\ ~newExtentList'[t].driver.open
                      /\ OutputClosed
                /\ extentList'[t].driver.open => extentList[t].driver.open
                /\ t \in DOMAIN newExtentList /\ newExtentList'[t].driver.open =>
                      newExtentList[t].driver.open

\* C14: in a run that does not fail every tile has a scratch store of its
\* own and goes through CREATED, POPULATED, CLOSED_FOR_READ, MERGED, DELETED
\* in that order: a store is written only through its open write handle,
\* the merge starts only when every tile has been closed and reopened for
\* read, and each store is closed and removed once, after the output store
\* has been closed.
TileLifecycle == [](LifecycleState) /\ [][LifecycleStep]_vars

\* a finished run over three tiles of which one was written to and one was not
TileLifecycleWitness ==
    /\ pc = "done"
    /\ Len(extentList) >= 3
    /\ \E s, t \in DOMAIN extentList :
          /\ files[extentList[s].driver.fname].writes # <<>>
          /\ HoldsPulses(s)
          /\ ~HoldsPulses(t)
    /\ \A t \in DOMAIN extentList : Lifecycle(t) = DELETED

\* ---- scaling of the scratch stores

\* C15 as stated: setScaling is called on a scratch store during the first
\* chunk only.
ScalingTablesWriteOnce ==
    \A f \in DOMAIN files : files[f].setScalingIn <= 1

\* two chunks have been split over the tiles
SecondChunkWritten == ChunkWritten /\ nBlocks >= 2

\* C15 amended: the scaling of the input is copied to a scratch store during
\* the first chunk only; setScaling is called for X_IDX and Y_IDX during
\* every chunk, with the gain and offset of the global extent each time, so
\* that no step after the first chunk changes the scaling table of a store.
ScalingTablesStable ==
    /\ [](SecondChunkWritten =>
            \A f \in DOMAIN files :
                /\ files[f].setScalingIn = nBlocks
                /\ files[f].scaling = TileScaling(NoScaling, TRUE, extent[1]))
    /\ [][nBlocks >= 1 =>
            \A f \in DOMAIN files : files'[f].scaling = files[f].scaling]_vars

\* the second of two chunks has been written to three tiles
ScalingTablesStableWitness ==
    /\ SecondChunkWritten
    /\ Len(files) >= 3
    /\ \E f \in DOMAIN files : Len(LastWrite(f).pulses) > 0

\* ---- copyScaling

FieldsOfType(type) == {k \in ScalingKeys : k[2] = type}

\* C16: after copyScaling, every field of the fixed lists (8 pulse fields,
\* 4 point fields, 1 waveform field) the source has scaling for has the
\* source's gain and offset in the destination, every field the source
\* lacks has in the destination what it had before, whatever comes before
\* or after it in its list, and the source's scaling is unchanged.
CopyModeScaling ==
    /\ Cardinality(FieldsOfType(ARRAY_TYPE_PULSES)) = Len(PulseScalingFields)
    /\ Cardinality(FieldsOfType(ARRAY_TYPE_POINTS)) = Len(PointScalingFields)
    /\ Cardinality(FieldsOfType(ARRAY_TYPE_WAVEFORMS)) = Len(WaveformScalingFields)
    /\ <<Len(PulseScalingFields), Len(PointScalingFields), Len(WaveformScalingFields)>>
          = <<8, 4, 1>>
    /\ scalingWas # <<>> =>
          /\ \A k \in ScalingKeys :
                IF scalingWas[1].input[k] # <<>>
                THEN scalingOut[k] = scalingWas[1].input[k]
                ELSE scalingOut[k] = scalingWas[1].output[k]
          /\ scalingIn = scalingWas[1].input

\* a call on a source that lacks H_ORIGIN and has X_IDX, which comes after
\* it in the list, and a destination that had both
CopyModeScalingWitness ==
    /\ scalingWas # <<>>
    /\ scalingWas[1].input[<<"H_ORIGIN", ARRAY_TYPE_PULSES>>] = <<>>
    /\ scalingWas[1].input[<<"X_IDX", ARRAY_TYPE_PULSES>>] # <<>>
    /\ scalingWas[1].output[<<"H_ORIGIN", ARRAY_TYPE_PULSES>>] # <<>>
    /\ scalingWas[1].output[<<"X_IDX", ARRAY_TYPE_PULSES>>] # <<>>
    /\ scalingOut[<<"X_IDX", ARRAY_TYPE_PULSES>>] # scalingWas[1].output[<<"X_IDX", ARRAY_TYPE_PULSES>>]
    /\ scalingOut[<<"H_ORIGIN", ARRAY_TYPE_PULSES>>] # <<>>

\* ---- failures

\* C17: a classifyFunc call that fails ends the build: the output store is
\* never created and nothing is written to it, no tile is reopened for the
\* merge, no scratch file is removed, and no step follows the failure.
PartitionFailureAborts ==
    /\ [](error # "" => pc = "failed")
    /\ [][/\ pc # "failed"
          /\ pc = "partition" /\ error' # "" =>
                /\ out' = <<>>
                /\ outCalls' = <<>>
                /\ newExtentList' = <<>>
                /\ \A f \in DOMAIN files' : files'[f].exists]_vars

\* the build has failed in the second classifyFunc call after the first had
\* written a pulse to a tile
PartitionFailureAbortsWitness ==
    /\ pc = "failed"
    /\ error = "IOError"
    /\ nBlocks = 2
    /\ newExtentList = <<>>
    /\ \E f \in DOMAIN files : HoldsPulses(f)
    /\ out = <<>>

\* C18: when indexAndMerge has failed, the output store and every scratch
\* store are closed.
MergeFailureClosesStores ==
    pc = "failed" /\ out # <<>> =>
        /\ ~out[1].open
        /\ \A t \in DOMAIN newExtentList : ~newExtentList[t].driver.open

\* ---- rangeFunc

\* the chunks rangeFunc has been applied to
Seen == IF tpc = "range" THEN SubSeq(lasFile, 1, nChunk) ELSE lasFile

\* the records of one kind in the chunks seen, each with its place
RecordsSeen(array) ==
    UNION {{<<i, j>> : j \in DOMAIN Seen[i][array]} : i \in DOMAIN Seen}

ValuesSeen(array, field) ==
    {Seen[r[1]][array][r[2]][field] : r \in RecordsSeen(array)}

Least(S) == CHOOSE v \in S : \A w \in S : v <= w
Greatest(S) == CHOOSE v \in S : \A w \in S : v >= w

\* the table of the minimum and maximum of every scaled field the records of
\* one kind hold, empty when no record was seen
RangesSeen(array, fields) ==
    LET held == {f \in Range(fields) :
                    \E r \in RecordsSeen(array) : f \in DOMAIN Seen[r[1]][array][r[2]]}
    IN  [k \in {f \o "_MIN" : f \in held} \cup {f \o "_MAX" : f \in held} |->
            IF IsMinKey(k)
            THEN Least(ValuesSeen(array, FieldOf(k)))
            ELSE Greatest(ValuesSeen(array, FieldOf(k)))]

\* the count of the records of one kind, under its key, or nothing
SizeSeen(array, key) ==
    IF RecordsSeen(array) = {} THEN <<>> ELSE [k \in {key} |-> Cardinality(RecordsSeen(array))]

\* rangeFunc applied to the chunks in turn
RECURSIVE RangeOfChunks(_, _)
RangeOfChunks(chunks, rd) ==
    IF chunks = <<>> THEN rd ELSE RangeOfChunks(Tail(chunks), rangeFunc(Head(chunks), rd))

\* C19: after rangeFunc has been applied to the chunks seen, starting from
\* empty dictionaries, the header holds NUMBER_OF_PULSES, NUMBER_OF_POINTS and
\* NUMBER_OF_WAVEFORMS as the numbers of records seen (no key for a kind
\* without records), each table holds the minimum and the maximum of every
\* scaled field over all chunks, the header holds the points' ranges as the
\* points table does, and the dictionaries are what any other order of the
\* same chunks gives.
RangeAccumulation ==
    tpc # "idle" =>
        /\ rangeDict.pulses = RangesSeen("pulses", PULSE_SCALED_FIELDS)
        /\ rangeDict.points = RangesSeen("points", POINT_SCALED_FIELDS)
        /\ rangeDict.waveforms = RangesSeen("waveformInfo", WAVEFORM_SCALED_FIELDS)
        /\ rangeDict.header =
              SizeSeen("pulses", "NUMBER_OF_PULSES")
                @@ SizeSeen("points", "NUMBER_OF_POINTS")
                @@ SizeSeen("waveformInfo", "NUMBER_OF_WAVEFORMS")
                @@ rangeDict.points
        /\ \A p \in Permutations(DOMAIN Seen) :
              RangeOfChunks([i \in DOMAIN Seen |-> Seen[p[i]]], EmptyRangeDict) = rangeDict

\* three different chunks have been seen, of which the first holds no
\* pulses and the least Z, the second more than one point and the greatest
\* Z, and none a waveform
RangeAccumulationWitness ==
    /\ tpc = "trans"
    /\ Len(lasFile) = MaxChunks
    /\ \A i, j \in DOMAIN lasFile : i # j => lasFile[i] # lasFile[j]
    /\ Len(lasFile[1].pulses) = 0
    /\ Len(lasFile[1].points) = 1
    /\ Len(lasFile[2].points) > 1
    /\ rangeDict.header["NUMBER_OF_POINTS"] > 2
    /\ rangeDict.header["Z_MIN"] = MinOf(lasFile[1].points, "Z")
    /\ rangeDict.header["Z_MAX"] = MaxOf(lasFile[2].points, "Z")
    /\ "NUMBER_OF_WAVEFORMS" \notin DOMAIN rangeDict.header

Next ==
    \/ Start
    \/ TileStep
    \/ Classify
    \/ ClassifyFails
    \/ EndOfInput
    \/ ReopenStep
    \/ OpenOutput
    \/ MergeStep
    \/ MergeFails
    \/ CloseOutput
    \/ CleanupStep

Spec == Init /\ [][Next]_vars

====
